---- MODULE Spec2Model ----
(***************************************************************************)
(* Inworld TTS streaming pipeline (ten_packages/extension/                 *)
(* inworld_tts_python).  The package holds two variants of the pipeline:   *)
(*   - InworldTTSExtension (extension.py): request_tts / _synthesize /     *)
(*     on_cancel_tts, emitting audioStart, audioData, audioEnd and error;  *)
(*   - InworldTTSClient (inworld_tts.py): start / close / send_text /      *)
(*     flush and the dispatcher _process_loop with _synthesize_stream,     *)
(*     emitting (bytes, is_end, request_id) tuples on response_msgs and    *)
(*     ModuleErrors on error_callback.                                     *)
(* The variable `variant` says which of the two classes is instantiated.   *)
(*                                                                         *)
(* Response bytes are abstracted to tokens: "NL" is the newline byte, "SP" *)
(* a whitespace byte that JSON allows around a value, "VT" a whitespace    *)
(* byte that bytes.strip() removes and JSON does not allow (0x0b, 0x0c), a *)
(* record line is a head token (everything up to and including the         *)
(* audioContent value) followed by the closing token "}".  Any other token *)
(* sequence is not valid JSON.                                             *)
(***************************************************************************)
EXTENDS Integers, Sequences, FiniteSets, TLC

\* ------------------------------------------------------------------ bounds
\* request_tts calls delivered to the extension
MaxRequests == 2
\* on_cancel_tts calls delivered to the extension
MaxCancels == 1

\* ------------------------------------------------------- program constants
WAV_HEADER_LEN == 44
HTTP_OK == 200

RequestIds == {"r1", "r2"}
Texts == {"", "hi"}

\* --------------------------------------------------------------- decoder
\* Head tokens of a line and the outcome of parsing and decoding them.
AudioHeads == {"riff50", "riff45", "riff44", "pcm50", "pcm3", "blank"}
RaisingHeads == {"badb64", "badutf", "list"}
Heads == AudioHeads \cup RaisingHeads \cup {"noaudio"}

\* base64.b64decode(audio_content): the decoded bytes, as signature and length.
\* "blank" is a non-empty audioContent holding no base64 character: it
\* decodes to zero bytes.
b64decode(h) ==
  CASE h = "riff50" -> [riff |-> TRUE, len |-> 50]
    [] h = "riff45" -> [riff |-> TRUE, len |-> 45]
    [] h = "riff44" -> [riff |-> TRUE, len |-> 44]
    [] h = "pcm50"  -> [riff |-> FALSE, len |-> 50]
    [] h = "pcm3"   -> [riff |-> FALSE, len |-> 3]
    [] OTHER        -> [riff |-> FALSE, len |-> 0]

\* A header strip that tests `>=` for `>`.
StripWavHeaderFrom44(audio_bytes) ==
  IF audio_bytes.len >= WAV_HEADER_LEN /\ audio_bytes.riff
    THEN [riff |-> FALSE, len |-> audio_bytes.len - WAV_HEADER_LEN]
    ELSE audio_bytes

\* Strip WAV header if present.
StripWavHeader(audio_bytes) ==
  IF audio_bytes.len > WAV_HEADER_LEN /\ audio_bytes.riff
    THEN [riff |-> FALSE, len |-> audio_bytes.len - WAV_HEADER_LEN]
    ELSE audio_bytes

\* The bytes that bytes.strip() removes.
IsSpace(b) == b \in {"SP", "NL", "VT"}

\* The bytes that json.loads accepts around a value.
IsJsonSpace(b) == b \in {"SP", "NL"}

RECURSIVE LStrip(_)
LStrip(s) == IF s # <<>> /\ IsSpace(Head(s)) THEN LStrip(Tail(s)) ELSE s

RECURSIVE RStrip(_)
RStrip(s) ==
  IF s # <<>> /\ IsSpace(s[Len(s)]) THEN RStrip(SubSeq(s, 1, Len(s) - 1)) ELSE s

\* bytes.strip()
Strip(s) == RStrip(LStrip(s))

RECURSIVE JsonLStrip(_)
JsonLStrip(s) == IF s # <<>> /\ IsJsonSpace(Head(s)) THEN JsonLStrip(Tail(s)) ELSE s

RECURSIVE JsonRStrip(_)
JsonRStrip(s) ==
  IF s # <<>> /\ IsJsonSpace(s[Len(s)])
    THEN JsonRStrip(SubSeq(s, 1, Len(s) - 1)) ELSE s

\* The text json.loads parses once the whitespace it accepts is skipped.
JsonText(s) == JsonRStrip(JsonLStrip(s))

\* The body of the try block for one line: json.loads(line.decode("utf-8")),
\* data.get("result", {}).get("audioContent"), b64decode, header strip.
\*   kind "audio": a payload to emit when its length is > 0
\*   kind "skip" : json.JSONDecodeError (caught) or no audioContent
\*   kind "raise": an exception that is not json.JSONDecodeError
ProcessLine(line) ==
  LET text == JsonText(line) IN
  IF Len(text) = 2 /\ text[1] \in Heads /\ text[2] = "}"
    THEN IF text[1] \in RaisingHeads
           THEN [kind |-> "raise", audio |-> [riff |-> FALSE, len |-> 0]]
           ELSE IF text[1] = "noaudio"
             THEN [kind |-> "skip", audio |-> [riff |-> FALSE, len |-> 0]]
             ELSE [kind |-> "audio", audio |-> StripWavHeader(b64decode(text[1]))]
    ELSE [kind |-> "skip", audio |-> [riff |-> FALSE, len |-> 0]]

\* A chunk loop that keeps only the last chunk.
AppendChunkDropsBuffer(buffer, chunk) == chunk

\* buffer += chunk
AppendChunk(buffer, chunk) == buffer \o chunk

\* Index of the first newline of s, 0 when there is none.
RECURSIVE FindNL(_, _)
FindNL(s, i) ==
  IF i > Len(s) THEN 0 ELSE IF s[i] = "NL" THEN i ELSE FindNL(s, i + 1)

\* while b"\n" in buffer: the payloads emitted (in order), whether an
\* exception escaped, and the bytes left in the buffer.
RECURSIVE ProcessLines(_, _)
ProcessLines(buf, out) ==
  LET i == FindNL(buf, 1) IN
  IF i = 0
    THEN [out |-> out, raised |-> FALSE, buffer |-> buf]
    ELSE LET line == Strip(SubSeq(buf, 1, i - 1))
             rest == SubSeq(buf, i + 1, Len(buf))
             r    == ProcessLine(line)
         IN IF line = <<>> THEN ProcessLines(rest, out)
            ELSE IF r.kind = "raise"
              THEN [out |-> out, raised |-> TRUE, buffer |-> rest]
            ELSE IF r.kind = "audio" /\ r.audio.len > 0
              THEN ProcessLines(rest, Append(out, r.audio))
            ELSE ProcessLines(rest, out)

\* Process any remaining data in buffer (end of the response body): the test
\* is on buffer.strip(), json.loads is given the whole buffer.
ProcessRemaining(buf) ==
  LET r == ProcessLine(buf) IN
  IF Strip(buf) = <<>> THEN [out |-> <<>>, raised |-> FALSE]
  ELSE IF r.kind = "raise" THEN [out |-> <<>>, raised |-> TRUE]
  ELSE IF r.kind = "audio" /\ r.audio.len > 0
    THEN [out |-> <<r.audio>>, raised |-> FALSE]
  ELSE [out |-> <<>>, raised |-> FALSE]

\* Response bodies the remote service may stream for one exchange.
Line(h) == <<h, "}", "NL">>
Responses ==
  { Line("pcm3"),
    Line("blank") \o Line("riff50"),
    <<"pcm3", "}">>,
    Line("badb64") }

\* ------------------------------------------------------------------ state
VARIABLES
  variant,        \* "extension" (InworldTTSExtension) or "client" (InworldTTSClient)
  events,         \* OutputSink: every event emitted so far, in order
  posted,         \* numbers of the units for which an HTTP exchange was opened (session.post)
  finished,       \* the units whose handling has completed (returned or raised)
  ext_inited,     \* on_init has run
  ext_session,    \* InworldTTSExtension._session: "None" or "open"
  ext_pc,         \* where request_tts is suspended: idle, post, text, read
  ext_t,          \* the TTSTextInput request_tts is handling
  first_audio,    \* _synthesize local
  ext_buffer,     \* _synthesize local: bytes after the last newline
  ext_stream,     \* response bytes the service has not delivered yet
  n_requests,     \* request_tts calls so far
  n_cancels,      \* on_cancel_tts calls so far
  running,          \* InworldTTSClient._running
  session,          \* InworldTTSClient._session: 0 is None, else a session number
  sessions,         \* every ClientSession created so far: "open" or "closed"
  process_task,     \* InworldTTSClient._process_task: 0 is None, else a task number
  tasks,            \* every _process_loop task created so far
  cur_request_id,   \* InworldTTSClient.cur_request_id
  text_input_queue, \* InworldTTSClient.text_input_queue
  n_sends,          \* send_text calls so far
  dequeued,         \* the units the dispatcher took from the queue, in order
  flushed,          \* the units flush() discarded, each with the length of events and
                    \* the numbers of the units in flight when it was discarded
  closes,           \* the outcome of every close() call so far: "returned" or "raised"
  dec_bytes,        \* decoder: the whole response body
  dec_rest,         \* decoder: the bytes not delivered yet
  dec_buffer,       \* decoder: buffer, the bytes after the last newline
  dec_out,          \* decoder: the payloads emitted so far, in order
  dec_pc            \* decoder: read (chunk loop), done (returned), raised

ext_vars == <<ext_inited, ext_session, ext_pc, ext_t, first_audio, ext_buffer,
              ext_stream, n_requests, n_cancels>>

client_vars == <<running, session, sessions, process_task, tasks, cur_request_id,
                 text_input_queue, n_sends, dequeued, flushed, closes>>

dec_vars == <<dec_bytes, dec_rest, dec_buffer, dec_out, dec_pc>>

\* An event of the output sink.  x is the number of the text unit whose
\* processing emitted it (0: emitted outside the processing of a unit).
Event(k, rid, info, x) == [k |-> k, rid |-> rid, info |-> info, x |-> x]

NoInput == [text |-> "", request_id |-> "", text_input_end |-> FALSE]

\* A text unit with its number: the n-th TTSTextInput given to request_tts, or
\* the n-th unit given to send_text.
Unit(text, request_id, is_end, id) ==
  [text |-> text, request_id |-> request_id, is_end |-> is_end, id |-> id]

\* A test of the no-op unit that never holds.
IsNoOpNever(text, is_end) == FALSE

\* `if not text and not is_end` (`if not t.text and not t.text_input_end`):
\* the unit is dropped.
IsNoOp(text, is_end) == text = "" /\ ~is_end

ExtUnit(t, n) == Unit(t.text, t.request_id, t.text_input_end, n)
TTSTextInputs ==
  [text : Texts, request_id : RequestIds, text_input_end : BOOLEAN]

\* --------------------------------------------------- InworldTTSExtension
\* InworldTTSExtension.__init__
ExtConstructed ==
  /\ ext_inited = FALSE
  /\ ext_session = "None"
  /\ ext_pc = "idle"
  /\ ext_t = NoInput
  /\ first_audio = TRUE
  /\ ext_buffer = <<>>
  /\ ext_stream = <<>>
  /\ n_requests = 0
  /\ n_cancels = 0

\* InworldTTSClient.__init__
ClientConstructed ==
  /\ running = FALSE
  /\ session = 0
  /\ sessions = <<>>
  /\ process_task = 0
  /\ tasks = <<>>
  /\ cur_request_id = ""
  /\ text_input_queue = <<>>
  /\ n_sends = 0
  /\ dequeued = <<>>
  /\ flushed = {}
  /\ closes = <<>>

\* No response body is being decoded on its own.
DecoderIdle ==
  /\ dec_bytes = <<>>
  /\ dec_rest = <<>>
  /\ dec_buffer = <<>>
  /\ dec_out = <<>>
  /\ dec_pc = "done"

InitExt ==
  /\ variant = "extension"
  /\ events = <<>>
  /\ posted = {}
  /\ finished = {}
  /\ ExtConstructed
  /\ ClientConstructed
  /\ DecoderIdle

\* on_init: creates the HTTP session; a failure before that (no api_key)
\* reports FATAL_ERROR with request_id "" and leaves _session None.
OnInit(ok) ==
  /\ variant = "extension"
  /\ ~ext_inited
  /\ ext_inited' = TRUE
  /\ IF ok
       THEN ext_session' = "open" /\ events' = events
       ELSE /\ ext_session' = "None"
            /\ events' = Append(events, Event("error", "", "FATAL_ERROR", 0))
  /\ UNCHANGED client_vars
  /\ UNCHANGED dec_vars
  /\ UNCHANGED <<variant, posted, finished, ext_pc, ext_t, first_audio, ext_buffer,
                 ext_stream, n_requests, n_cancels>>

\* A request_tts that sends audioEnd only after having synthesized text.
RequestTtsEndOnlyAfterText(evs, t, x) ==
  IF t.text_input_end /\ t.text # ""
    THEN Append(evs, Event("audioEnd", t.request_id, "REQUEST_END", x))
    ELSE evs

\* The tail of request_tts once _synthesize has returned normally:
\* send_tts_audio_end(REQUEST_END) and finish_request when text_input_end.
RequestTtsEnd(evs, t, x) ==
  IF t.text_input_end
    THEN Append(evs, Event("audioEnd", t.request_id, "REQUEST_END", x))
    ELSE evs

\* The emission of decoded payloads in _synthesize: audioStart before the
\* first one while first_audio, then audioData.
RECURSIVE SendAudio(_, _, _, _, _)
SendAudio(evs, out, first, rid, x) ==
  IF out = <<>> THEN [events |-> evs, first_audio |-> first]
  ELSE LET e1 == IF first THEN Append(evs, Event("audioStart", rid, "", x)) ELSE evs
           e2 == Append(e1, Event("audioData", rid, Head(out).len, x))
       IN SendAudio(e2, Tail(out), FALSE, rid, x)

\* request_tts up to its first suspension.
RequestTts(t) ==
  /\ variant = "extension"
  /\ ext_inited
  /\ ext_pc = "idle"
  /\ n_requests < MaxRequests
  /\ n_requests' = n_requests + 1
  /\ IF IsNoOp(t.text, t.text_input_end)
       THEN /\ finished' = finished \cup {ExtUnit(t, n_requests + 1)}
            /\ UNCHANGED <<events, posted, ext_pc, ext_t, first_audio>>
       ELSE IF t.text # "" /\ ext_session = "open"
         THEN /\ ext_pc' = "post"
              /\ ext_t' = t
              /\ first_audio' = TRUE
              /\ posted' = posted \cup {n_requests + 1}
              /\ UNCHANGED <<events, finished>>
         ELSE /\ events' = RequestTtsEnd(events, t, n_requests + 1)
              /\ finished' = finished \cup {ExtUnit(t, n_requests + 1)}
              /\ UNCHANGED <<posted, ext_pc, ext_t, first_audio>>
  /\ UNCHANGED client_vars
  /\ UNCHANGED dec_vars
  /\ UNCHANGED <<variant, ext_inited, ext_session, ext_buffer, ext_stream, n_cancels>>

\* _synthesize returns normally to request_tts, which finishes.
SynthesizeReturn(evs) ==
  /\ events' = RequestTtsEnd(evs, ext_t, n_requests)
  /\ finished' = finished \cup {ExtUnit(ext_t, n_requests)}
  /\ ext_pc' = "idle"
  /\ ext_t' = NoInput
  /\ ext_buffer' = <<>>
  /\ ext_stream' = <<>>

\* An exception that _synthesize does not catch leaves request_tts.
SynthesizeRaise(evs) ==
  /\ events' = evs
  /\ finished' = finished \cup {ExtUnit(ext_t, n_requests)}
  /\ ext_pc' = "idle"
  /\ ext_t' = NoInput
  /\ ext_buffer' = <<>>
  /\ ext_stream' = <<>>

ExtError(code) == Event("error", ext_t.request_id, code, n_requests)

\* The response headers arrive: status 200 starts the chunk loop, any other
\* status goes on to read the error body.
ExtResponse(status, body) ==
  /\ variant = "extension"
  /\ ext_pc = "post"
  /\ IF status # HTTP_OK
       THEN ext_pc' = "text" /\ UNCHANGED <<ext_buffer, ext_stream>>
       ELSE ext_pc' = "read" /\ ext_buffer' = <<>> /\ ext_stream' = body
  /\ UNCHANGED client_vars
  /\ UNCHANGED dec_vars
  /\ UNCHANGED <<variant, events, posted, finished, ext_inited, ext_session, ext_t,
                 first_audio, n_requests, n_cancels>>

\* await response.text() on a non-200 response.
ExtErrorText(ok) ==
  /\ variant = "extension"
  /\ ext_pc = "text"
  /\ IF ok
       THEN SynthesizeReturn(Append(events, ExtError("VENDOR_ERROR")))
       ELSE SynthesizeReturn(Append(events, ExtError("NETWORK_ERROR")))
  /\ UNCHANGED client_vars
  /\ UNCHANGED dec_vars
  /\ UNCHANGED <<variant, posted, ext_inited, ext_session, first_audio,
                 n_requests, n_cancels>>

\* One iteration of `async for chunk in response.content.iter_any()`.
ExtChunk(n) ==
  /\ variant = "extension"
  /\ ext_pc = "read"
  /\ n \in 1..Len(ext_stream)
  /\ LET r == ProcessLines(AppendChunk(ext_buffer, SubSeq(ext_stream, 1, n)), <<>>)
         s == SendAudio(events, r.out, first_audio, ext_t.request_id, n_requests)
     IN IF r.raised
          THEN SynthesizeRaise(s.events) /\ first_audio' = s.first_audio
          ELSE /\ events' = s.events
               /\ first_audio' = s.first_audio
               /\ ext_buffer' = r.buffer
               /\ ext_stream' = SubSeq(ext_stream, n + 1, Len(ext_stream))
               /\ UNCHANGED <<finished, ext_pc, ext_t>>
  /\ UNCHANGED client_vars
  /\ UNCHANGED dec_vars
  /\ UNCHANGED <<variant, posted, ext_inited, ext_session, n_requests, n_cancels>>

\* The response body ends: process the remaining buffer, then return.
ExtEof ==
  /\ variant = "extension"
  /\ ext_pc = "read"
  /\ ext_stream = <<>>
  /\ LET r == ProcessRemaining(ext_buffer)
         s == SendAudio(events, r.out, first_audio, ext_t.request_id, n_requests)
     IN /\ first_audio' = s.first_audio
        /\ IF r.raised THEN SynthesizeRaise(s.events) ELSE SynthesizeReturn(s.events)
  /\ UNCHANGED client_vars
  /\ UNCHANGED dec_vars
  /\ UNCHANGED <<variant, posted, ext_inited, ext_session, n_requests, n_cancels>>

\* except aiohttp.ClientError, raised by the post or by a chunk read.
ExtClientError ==
  /\ variant = "extension"
  /\ ext_pc \in {"post", "read"}
  /\ SynthesizeReturn(Append(events, ExtError("NETWORK_ERROR")))
  /\ UNCHANGED client_vars
  /\ UNCHANGED dec_vars
  /\ UNCHANGED <<variant, posted, ext_inited, ext_session, first_audio,
                 n_requests, n_cancels>>

\* ClientTimeout(total=30) expires: asyncio.TimeoutError is not an
\* aiohttp.ClientError and leaves _synthesize and request_tts.
ExtTimeout ==
  /\ variant = "extension"
  /\ ext_pc \in {"post", "text", "read"}
  /\ SynthesizeRaise(events)
  /\ UNCHANGED client_vars
  /\ UNCHANGED dec_vars
  /\ UNCHANGED <<variant, posted, ext_inited, ext_session, first_audio,
                 n_requests, n_cancels>>

\* on_cancel_tts: audioEnd(INTERRUPTED) and finish_request; nothing else.
\* The event's x is the number of the unit whose exchange is in flight with
\* this request_id (0 when there is none).
OnCancelTts(request_id) ==
  /\ variant = "extension"
  /\ ext_inited
  /\ n_cancels < MaxCancels
  /\ n_cancels' = n_cancels + 1
  /\ events' = Append(events, Event("audioEnd", request_id, "INTERRUPTED",
       IF ext_pc # "idle" /\ ext_t.request_id = request_id THEN n_requests ELSE 0))
  /\ UNCHANGED client_vars
  /\ UNCHANGED dec_vars
  /\ UNCHANGED <<variant, posted, finished, ext_inited, ext_session, ext_pc, ext_t,
                 first_audio, ext_buffer, ext_stream, n_requests>>

NextExt ==
  \/ \E ok \in BOOLEAN : OnInit(ok)
  \/ \E t \in TTSTextInputs : RequestTts(t)
  \/ \E status \in {HTTP_OK, 429}, body \in Responses : ExtResponse(status, body)
  \/ \E ok \in BOOLEAN : ExtErrorText(ok)
  \/ \E n \in 1..3 : ExtChunk(n)
  \/ ExtEof
  \/ ExtClientError
  \/ ExtTimeout
  \/ \E request_id \in RequestIds : OnCancelTts(request_id)

\* ------------------------------------------------------ InworldTTSClient
\* start() calls on one client
MaxStarts == 2
\* send_text calls on one client
MaxSends == 2
\* close() calls on one client
MaxCloses == 2

InitClient ==
  /\ variant = "client"
  /\ events = <<>>
  /\ posted = {}
  /\ finished = {}
  /\ ExtConstructed
  /\ ClientConstructed
  /\ DecoderIdle

NoUnit == Unit("", "", FALSE, 0)

\* A _process_loop task that is not processing a unit.
\*   pc: top (created, not run yet), wait (in wait_for(queue.get())),
\*       post, text, read (inside _synthesize_stream), cb (in the error
\*       callback called by _synthesize_stream), cb_loop (in the error
\*       callback called by the loop's except clause), done
LoopTask(pc) ==
  [pc |-> pc, unit |-> NoUnit, buffer |-> <<>>, stream |-> <<>>, sess |-> 0]

\* `while self._running`, evaluated at the top of the loop.
LoopTop == IF running THEN "wait" ELSE "done"

\* The end-of-stream marker (b"", True, request_id).
EndMarker(u) == Event("audioEnd", u.request_id, "END_MARKER", u.id)

\* start(): sets _running, creates a session and a loop task.
Start ==
  /\ variant = "client"
  /\ Len(tasks) < MaxStarts
  /\ running' = TRUE
  /\ sessions' = Append(sessions, "open")
  /\ session' = Len(sessions) + 1
  /\ tasks' = Append(tasks, LoopTask("top"))
  /\ process_task' = Len(tasks) + 1
  /\ UNCHANGED ext_vars
  /\ UNCHANGED dec_vars
  /\ UNCHANGED <<variant, closes, events, posted, finished, cur_request_id,
                 text_input_queue, n_sends, dequeued, flushed>>

\* A close() without the `if self._process_task` guard: with no task, the
\* cancel() of None raises AttributeError before anything else is done.
CloseUnguarded ==
  /\ variant = "client"
  /\ Len(closes) < MaxCloses
  /\ closes' = Append(closes, IF process_task = 0 THEN "raised" ELSE "returned")
  /\ running' = FALSE
  /\ tasks' = IF process_task # 0
                THEN [tasks EXCEPT ![process_task] = LoopTask("done")]
                ELSE tasks
  /\ sessions' = IF process_task # 0 /\ session # 0
                   THEN [sessions EXCEPT ![session] = "closed"]
                   ELSE sessions
  /\ UNCHANGED ext_vars
  /\ UNCHANGED dec_vars
  /\ UNCHANGED <<variant, events, posted, finished, session, process_task,
                 cur_request_id, text_input_queue, n_sends, dequeued, flushed>>

\* close(): clears _running, cancels _process_task and awaits it (the
\* CancelledError ends the task wherever it is suspended), closes _session.
\* Both steps are guarded (`if self._process_task`, `if self._session`), so
\* the call returns also when there is no task and no session.
Close ==
  /\ variant = "client"
  /\ Len(closes) < MaxCloses
  /\ closes' = Append(closes, "returned")
  /\ running' = FALSE
  /\ tasks' = IF process_task # 0
                THEN [tasks EXCEPT ![process_task] = LoopTask("done")]
                ELSE tasks
  /\ sessions' = IF session # 0
                   THEN [sessions EXCEPT ![session] = "closed"]
                   ELSE sessions
  /\ UNCHANGED ext_vars
  /\ UNCHANGED dec_vars
  /\ UNCHANGED <<variant, events, posted, finished, session, process_task,
                 cur_request_id, text_input_queue, n_sends, dequeued, flushed>>

\* A send_text that puts the unit at the front of the queue.
SendTextAtFront(text, request_id, is_end) ==
  /\ variant = "client"
  /\ n_sends < MaxSends
  /\ n_sends' = n_sends + 1
  /\ text_input_queue' = <<Unit(text, request_id, is_end, n_sends + 1)>>
                           \o text_input_queue
  /\ UNCHANGED ext_vars
  /\ UNCHANGED dec_vars
  /\ UNCHANGED <<variant, closes, events, posted, finished, running, session, sessions,
                 process_task, tasks, cur_request_id, dequeued, flushed>>

\* send_text(text, request_id, is_end)
SendText(text, request_id, is_end) ==
  /\ variant = "client"
  /\ n_sends < MaxSends
  /\ n_sends' = n_sends + 1
  /\ text_input_queue' = Append(text_input_queue,
       Unit(text, request_id, is_end, n_sends + 1))
  /\ UNCHANGED ext_vars
  /\ UNCHANGED dec_vars
  /\ UNCHANGED <<variant, closes, events, posted, finished, running, session, sessions,
                 process_task, tasks, cur_request_id, dequeued, flushed>>

\* A flush() that tests the queue once (`if` for `while`): it discards one unit.
FlushOne ==
  /\ variant = "client"
  /\ text_input_queue' = IF text_input_queue = <<>> THEN <<>> ELSE Tail(text_input_queue)
  /\ flushed' = flushed \cup
       { [u |-> text_input_queue[k], at |-> Len(events),
          cur |-> {tasks[i].unit.id : i \in 1..Len(tasks)} \ {0}] :
         k \in 1..Len(text_input_queue) }
  /\ UNCHANGED ext_vars
  /\ UNCHANGED dec_vars
  /\ UNCHANGED <<variant, closes, events, posted, finished, running, session, sessions,
                 process_task, tasks, cur_request_id, n_sends, dequeued>>

\* flush(): get_nowait() until the queue is empty.
Flush ==
  /\ variant = "client"
  /\ text_input_queue' = <<>>
  /\ flushed' = flushed \cup
       { [u |-> text_input_queue[k], at |-> Len(events),
          cur |-> {tasks[i].unit.id : i \in 1..Len(tasks)} \ {0}] :
         k \in 1..Len(text_input_queue) }
  /\ UNCHANGED ext_vars
  /\ UNCHANGED dec_vars
  /\ UNCHANGED <<variant, closes, events, posted, finished, running, session, sessions,
                 process_task, tasks, cur_request_id, n_sends, dequeued>>

\* The first run of a loop task: the loop condition, then wait_for.
LoopFirstRun(i) ==
  /\ variant = "client"
  /\ i \in 1..Len(tasks)
  /\ tasks[i].pc = "top"
  /\ tasks' = [tasks EXCEPT ![i] = LoopTask(LoopTop)]
  /\ UNCHANGED ext_vars
  /\ UNCHANGED dec_vars
  /\ UNCHANGED <<variant, closes, events, posted, finished, running, session, sessions,
                 process_task, cur_request_id, text_input_queue, n_sends, dequeued,
                 flushed>>

\* wait_for(queue.get(), timeout=1.0) times out: continue.
LoopQueueTimeout(i) ==
  /\ variant = "client"
  /\ i \in 1..Len(tasks)
  /\ tasks[i].pc = "wait"
  /\ text_input_queue = <<>>
  /\ tasks' = [tasks EXCEPT ![i] = LoopTask(LoopTop)]
  /\ UNCHANGED ext_vars
  /\ UNCHANGED dec_vars
  /\ UNCHANGED <<variant, closes, events, posted, finished, running, session, sessions,
                 process_task, cur_request_id, text_input_queue, n_sends, dequeued,
                 flushed>>

\* The loop's `except Exception`: RUNTIME_ERROR reported with cur_request_id.
RuntimeErrorEvent(request_id, u) == Event("error", request_id, "RUNTIME_ERROR", u.id)

\* wait_for returns a unit: the loop body up to its first suspension.
LoopDequeue(i) ==
  /\ variant = "client"
  /\ i \in 1..Len(tasks)
  /\ tasks[i].pc = "wait"
  /\ text_input_queue # <<>>
  /\ LET u == Head(text_input_queue) IN
     /\ text_input_queue' = Tail(text_input_queue)
     /\ dequeued' = Append(dequeued, u)
     /\ IF IsNoOp(u.text, u.is_end)
          THEN /\ tasks' = [tasks EXCEPT ![i] = LoopTask(LoopTop)]
               /\ finished' = finished \cup {u}
               /\ UNCHANGED <<events, posted, cur_request_id>>
          ELSE /\ cur_request_id' = u.request_id
               /\ IF u.text # "" /\ session # 0
                    THEN IF sessions[session] = "closed"
                           \* session.post raises RuntimeError("Session is closed")
                           THEN /\ events' = Append(events, RuntimeErrorEvent(u.request_id, u))
                                /\ tasks' = [tasks EXCEPT ![i] =
                                     [LoopTask("cb_loop") EXCEPT !.unit = u]]
                                /\ UNCHANGED <<posted, finished>>
                           ELSE /\ posted' = posted \cup {u.id}
                                /\ tasks' = [tasks EXCEPT ![i] =
                                     [LoopTask("post") EXCEPT !.unit = u, !.sess = session]]
                                /\ UNCHANGED <<events, finished>>
                    ELSE /\ events' = IF u.is_end THEN Append(events, EndMarker(u)) ELSE events
                         /\ tasks' = [tasks EXCEPT ![i] = LoopTask(LoopTop)]
                         /\ finished' = finished \cup {u}
                         /\ UNCHANGED posted
  /\ UNCHANGED ext_vars
  /\ UNCHANGED dec_vars
  /\ UNCHANGED <<variant, closes, running, session, sessions, process_task, n_sends,
                 flushed>>

\* _synthesize_stream returns normally; the loop emits the end marker when
\* is_end and goes back to the top.
StreamReturn(i, evs) ==
  /\ events' = IF tasks[i].unit.is_end THEN Append(evs, EndMarker(tasks[i].unit)) ELSE evs
  /\ tasks' = [tasks EXCEPT ![i] = LoopTask(LoopTop)]
  /\ finished' = finished \cup {tasks[i].unit}

\* A _synthesize_stream that reports the error and goes on with the exchange.
StreamErrorGoesOn(i, code) ==
  /\ events' = Append(events, Event("error", tasks[i].unit.request_id, code, tasks[i].unit.id))
  /\ UNCHANGED <<tasks, finished>>

\* _synthesize_stream calls error_callback (VENDOR_ERROR, NETWORK_ERROR).
StreamError(i, code) ==
  /\ events' = Append(events, Event("error", tasks[i].unit.request_id, code, tasks[i].unit.id))
  /\ tasks' = [tasks EXCEPT ![i] = [LoopTask("cb") EXCEPT !.unit = tasks[i].unit]]
  /\ UNCHANGED finished

\* An exception leaves _synthesize_stream and is caught by the loop.
StreamRaise(i, evs) ==
  /\ events' = Append(evs, RuntimeErrorEvent(cur_request_id, tasks[i].unit))
  /\ tasks' = [tasks EXCEPT ![i] = [LoopTask("cb_loop") EXCEPT !.unit = tasks[i].unit]]
  /\ UNCHANGED finished

\* The emission of decoded payloads in _synthesize_stream.
RECURSIVE PutAudio(_, _, _)
PutAudio(evs, out, u) ==
  IF out = <<>> THEN evs
  ELSE PutAudio(Append(evs, Event("audioData", u.request_id, Head(out).len, u.id)),
                Tail(out), u)

InExchange(i, pcs) ==
  /\ variant = "client"
  /\ i \in 1..Len(tasks)
  /\ tasks[i].pc \in pcs

\* The connection of the exchange is still usable.
Connected(i) == sessions[tasks[i].sess] = "open"

StreamResponse(i, status, body) ==
  /\ InExchange(i, {"post"})
  /\ Connected(i)
  /\ tasks' = [tasks EXCEPT ![i] =
       IF status # HTTP_OK
         THEN [@ EXCEPT !.pc = "text"]
         ELSE [@ EXCEPT !.pc = "read", !.buffer = <<>>, !.stream = body]]
  /\ UNCHANGED ext_vars
  /\ UNCHANGED dec_vars
  /\ UNCHANGED <<variant, closes, events, posted, finished, running, session, sessions,
                 process_task, cur_request_id, text_input_queue, n_sends, dequeued,
                 flushed>>

\* await response.text() on a non-200 response.
StreamErrorText(i, ok) ==
  /\ InExchange(i, {"text"})
  /\ ok => Connected(i)
  /\ StreamError(i, IF ok THEN "VENDOR_ERROR" ELSE "NETWORK_ERROR")
  /\ UNCHANGED ext_vars
  /\ UNCHANGED dec_vars
  /\ UNCHANGED <<variant, closes, posted, running, session, sessions, process_task,
                 cur_request_id, text_input_queue, n_sends, dequeued, flushed>>

StreamChunk(i, n) ==
  /\ InExchange(i, {"read"})
  /\ Connected(i)
  /\ n \in 1..Len(tasks[i].stream)
  /\ LET t == tasks[i]
         r == ProcessLines(AppendChunk(t.buffer, SubSeq(t.stream, 1, n)), <<>>)
         evs == PutAudio(events, r.out, t.unit)
     IN IF r.raised
          THEN StreamRaise(i, evs)
          ELSE /\ events' = evs
               /\ tasks' = [tasks EXCEPT ![i] =
                    [@ EXCEPT !.buffer = r.buffer,
                              !.stream = SubSeq(t.stream, n + 1, Len(t.stream))]]
               /\ UNCHANGED finished
  /\ UNCHANGED ext_vars
  /\ UNCHANGED dec_vars
  /\ UNCHANGED <<variant, closes, posted, running, session, sessions, process_task,
                 cur_request_id, text_input_queue, n_sends, dequeued, flushed>>

StreamEof(i) ==
  /\ InExchange(i, {"read"})
  /\ Connected(i)
  /\ tasks[i].stream = <<>>
  /\ LET r == ProcessRemaining(tasks[i].buffer)
         evs == PutAudio(events, r.out, tasks[i].unit)
     IN IF r.raised THEN StreamRaise(i, evs) ELSE StreamReturn(i, evs)
  /\ UNCHANGED ext_vars
  /\ UNCHANGED dec_vars
  /\ UNCHANGED <<variant, closes, posted, running, session, sessions, process_task,
                 cur_request_id, text_input_queue, n_sends, dequeued, flushed>>

\* A _synthesize_stream without `except aiohttp.ClientError`: the failure
\* reaches the loop's except clause.
StreamClientErrorRaises(i) ==
  /\ InExchange(i, {"post", "read"})
  /\ StreamRaise(i, events)
  /\ UNCHANGED ext_vars
  /\ UNCHANGED dec_vars
  /\ UNCHANGED <<variant, closes, posted, running, session, sessions, process_task,
                 cur_request_id, text_input_queue, n_sends, dequeued, flushed>>

\* except aiohttp.ClientError, raised by the post or by a chunk read.
StreamClientError(i) ==
  /\ InExchange(i, {"post", "read"})
  /\ StreamError(i, "NETWORK_ERROR")
  /\ UNCHANGED ext_vars
  /\ UNCHANGED dec_vars
  /\ UNCHANGED <<variant, closes, posted, running, session, sessions, process_task,
                 cur_request_id, text_input_queue, n_sends, dequeued, flushed>>

\* ClientTimeout(total=30) expires: asyncio.TimeoutError is not an
\* aiohttp.ClientError and reaches the loop's except clause.
StreamTimeout(i) ==
  /\ InExchange(i, {"post", "text", "read"})
  /\ StreamRaise(i, events)
  /\ UNCHANGED ext_vars
  /\ UNCHANGED dec_vars
  /\ UNCHANGED <<variant, closes, posted, running, session, sessions, process_task,
                 cur_request_id, text_input_queue, n_sends, dequeued, flushed>>

\* error_callback returns.
CallbackReturn(i) ==
  /\ InExchange(i, {"cb", "cb_loop"})
  /\ IF tasks[i].pc = "cb"
       THEN StreamReturn(i, events)
       ELSE /\ events' = events
            /\ tasks' = [tasks EXCEPT ![i] = LoopTask(LoopTop)]
            /\ finished' = finished \cup {tasks[i].unit}
  /\ UNCHANGED ext_vars
  /\ UNCHANGED dec_vars
  /\ UNCHANGED <<variant, closes, posted, running, session, sessions, process_task,
                 cur_request_id, text_input_queue, n_sends, dequeued, flushed>>

TaskIds == 1..MaxStarts + 1

NextClient ==
  \/ Start
  \/ Close
  \/ \E text \in Texts, request_id \in RequestIds, is_end \in BOOLEAN :
       SendText(text, request_id, is_end)
  \/ Flush
  \/ \E i \in TaskIds : LoopFirstRun(i)
  \/ \E i \in TaskIds : LoopQueueTimeout(i)
  \/ \E i \in TaskIds : LoopDequeue(i)
  \/ \E i \in TaskIds, status \in {HTTP_OK, 429}, body \in Responses :
       StreamResponse(i, status, body)
  \/ \E i \in TaskIds, ok \in BOOLEAN : StreamErrorText(i, ok)
  \/ \E i \in TaskIds, n \in 1..3 : StreamChunk(i, n)
  \/ \E i \in TaskIds : StreamEof(i)
  \/ \E i \in TaskIds : StreamClientError(i)
  \/ \E i \in TaskIds : StreamTimeout(i)
  \/ \E i \in TaskIds : CallbackReturn(i)

\* ------------------------------------------------------- decoder alone
\* The chunk loop and the remaining-buffer handling of _synthesize_stream and
\* _synthesize (the same code in both), run on one response body of a 200
\* response that the transport cuts into chunks at arbitrary places.

\* complete lines of a response body
MaxLines == 2

\* What stands between two newlines, or after the last one.
LineBodies ==
  { <<h, "}">> : h \in Heads } \cup
  { <<>>, <<"SP">>, <<"pcm3">>, <<"SP", "pcm3", "}", "SP">>, <<"VT", "pcm3", "}">> }

\* The bodies of k complete lines followed by the bytes after the last newline.
RECURSIVE Bodies(_)
Bodies(k) ==
  IF k = 0 THEN LineBodies
  ELSE { l \o <<"NL">> \o b : l \in LineBodies, b \in Bodies(k - 1) }

Streams == UNION { Bodies(k) : k \in 0..MaxLines }

\* The longest body of Streams.
MaxStreamLen == 5 * MaxLines + 4

InitDecoder ==
  /\ variant = "decoder"
  /\ events = <<>>
  /\ posted = {}
  /\ finished = {}
  /\ ExtConstructed
  /\ ClientConstructed
  /\ dec_bytes \in Streams
  /\ dec_rest = dec_bytes
  /\ dec_buffer = <<>>
  /\ dec_out = <<>>
  /\ dec_pc = "read"

\* One iteration of `async for chunk in response.content.iter_any()` on a
\* chunk of n bytes.
DecChunk(n) ==
  /\ variant = "decoder"
  /\ dec_pc = "read"
  /\ n \in 1..Len(dec_rest)
  /\ LET r == ProcessLines(AppendChunk(dec_buffer, SubSeq(dec_rest, 1, n)), <<>>) IN
     /\ dec_out' = dec_out \o r.out
     /\ dec_buffer' = r.buffer
     /\ dec_rest' = SubSeq(dec_rest, n + 1, Len(dec_rest))
     /\ dec_pc' = IF r.raised THEN "raised" ELSE "read"
  /\ UNCHANGED <<variant, events, posted, finished, dec_bytes>>
  /\ UNCHANGED ext_vars
  /\ UNCHANGED client_vars

\* The response body ends: process the remaining buffer.
DecEof ==
  /\ variant = "decoder"
  /\ dec_pc = "read"
  /\ dec_rest = <<>>
  /\ LET r == ProcessRemaining(dec_buffer) IN
     /\ dec_out' = dec_out \o r.out
     /\ dec_pc' = IF r.raised THEN "raised" ELSE "done"
  /\ UNCHANGED <<variant, events, posted, finished, dec_bytes, dec_rest, dec_buffer>>
  /\ UNCHANGED ext_vars
  /\ UNCHANGED client_vars

NextDecoder ==
  \/ \E n \in 1..MaxStreamLen : DecChunk(n)
  \/ DecEof

vars == <<variant, events, posted, finished, ext_vars, client_vars, dec_vars>>

SpecExt == InitExt /\ [][NextExt]_vars

SpecClient == InitClient /\ [][NextClient]_vars

\* The inputs of the specification with fairness: one request id, and a
\* response body that decodes and one that raises.
LiveRequestIds == {"r1"}
LiveResponses == {Line("pcm3"), Line("badb64")}

NextClientLive ==
  \/ Start
  \/ Close
  \/ \E text \in Texts, request_id \in LiveRequestIds, is_end \in BOOLEAN :
       SendText(text, request_id, is_end)
  \/ Flush
  \/ \E i \in TaskIds : LoopFirstRun(i)
  \/ \E i \in TaskIds : LoopQueueTimeout(i)
  \/ \E i \in TaskIds : LoopDequeue(i)
  \/ \E i \in TaskIds, status \in {HTTP_OK, 429}, body \in LiveResponses :
       StreamResponse(i, status, body)
  \/ \E i \in TaskIds, ok \in BOOLEAN : StreamErrorText(i, ok)
  \/ \E i \in TaskIds, n \in 1..3 : StreamChunk(i, n)
  \/ \E i \in TaskIds : StreamEof(i)
  \/ \E i \in TaskIds : StreamClientError(i)
  \/ \E i \in TaskIds : StreamTimeout(i)
  \/ \E i \in TaskIds : CallbackReturn(i)

\* One step of loop task i.
LoopStep(i) ==
  \/ LoopFirstRun(i)
  \/ LoopQueueTimeout(i)
  \/ LoopDequeue(i)
  \/ \E status \in {HTTP_OK, 429}, body \in LiveResponses : StreamResponse(i, status, body)
  \/ \E ok \in BOOLEAN : StreamErrorText(i, ok)
  \/ \E n \in 1..3 : StreamChunk(i, n)
  \/ StreamEof(i)
  \/ StreamClientError(i)
  \/ StreamTimeout(i)
  \/ CallbackReturn(i)

\* Loop task i can take a step that changes the state (ENABLED <<LoopStep(i)>>_vars):
\* it exists and has not ended, and when it is in the queue wait, a unit is
\* there to take or `while self._running` is about to end the loop.
CanStep(i) ==
  /\ variant = "client"
  /\ i \in DOMAIN tasks
  /\ \/ tasks[i].pc \in {"top", "post", "text", "read", "cb", "cb_loop"}
     \/ tasks[i].pc = "wait" /\ (text_input_queue # <<>> \/ ~running)

\* Weak fairness of the steps of loop task i, WF_vars(LoopStep(i)), with its
\* ENABLED written out as CanStep(i); in particular queue.get() returns a unit
\* that is waiting in the queue.
LoopFair(i) ==
  /\ []<>(~CanStep(i)) \/ []<><<LoopStep(i)>>_vars
  /\ WF_vars(LoopDequeue(i))

\* The event loop runs every task that can run: the queue wait ends after 1 s
\* at the latest, an exchange after ClientTimeout(total=30) at the latest,
\* and error_callback returns.
FairSpecClient ==
  InitClient /\ [][NextClientLive]_vars /\ \A i \in TaskIds : LoopFair(i)

SpecDecoder == InitDecoder /\ [][NextDecoder]_vars

\* Either class is instantiated.
Init == InitExt \/ InitClient

Next == NextExt \/ NextClient

Spec == Init /\ [][Next]_vars


\* ------------------------------------------------------------- properties
Idx == DOMAIN events

IsAudio(e) == e.k \in {"audioStart", "audioData"}

IsExchangeError(e) ==
  e.k = "error" /\ e.info \in {"VENDOR_ERROR", "NETWORK_ERROR", "RUNTIME_ERROR"}

\* The events emitted by the processing of unit number id, in order.
EventsOfUnit(id) == SelectSeq(events, LAMBDA e : e.x = id)

\* C1: for every requestId, audioStart is emitted at most once, also over
\* several exchanges of that requestId, and every audioData of the requestId
\* comes after an audioStart of it.
C1_AudioStartOncePerRequestId ==
  \A rid \in RequestIds :
    /\ Cardinality({i \in Idx : events[i].k = "audioStart" /\ events[i].rid = rid}) <= 1
    /\ \A j \in Idx :
         events[j].k = "audioData" /\ events[j].rid = rid
           => \E i \in 1..(j - 1) : events[i].k = "audioStart" /\ events[i].rid = rid

\* C2: once an audioEnd (REQUEST_END or INTERRUPTED) was emitted for a
\* requestId, no audioStart or audioData of that requestId is emitted.
C2_NoAudioAfterAudioEnd ==
  \A i, j \in Idx :
    i < j /\ events[i].k = "audioEnd" /\ events[j].rid = events[i].rid
      => ~IsAudio(events[j])

\* C3 as claimed: after an error for a requestId, no audioStart, audioData or
\* audioEnd / end marker follows for that requestId.
C3_ErrorTerminatesRequestId ==
  \A i, j \in Idx :
    i < j /\ IsExchangeError(events[i]) /\ events[j].rid = events[i].rid
      => ~IsAudio(events[j]) /\ events[j].k # "audioEnd"

\* C3 as amended: an error terminates the exchange of the unit that reported
\* it: the processing of that unit emits no audioStart, no audioData and no
\* second error afterwards (its audioEnd / end marker may still follow).
C3_ErrorTerminatesExchange ==
  \A i, j \in Idx :
    i < j /\ IsExchangeError(events[i]) /\ events[j].x = events[i].x
      => ~IsAudio(events[j]) /\ events[j].k # "error"

\* An exchange that emitted audio, then failed, and whose unit still got its
\* audioEnd / end marker.
C3_Witness ==
  \E i, j, k \in Idx :
    /\ i < j /\ j < k
    /\ events[i].k = "audioData" /\ IsExchangeError(events[j]) /\ events[k].k = "audioEnd"
    /\ events[i].x = events[j].x /\ events[k].x = events[j].x

\* C4: at most one loop task is inside _synthesize_stream at any time.
C4_AtMostOneExchangeInFlight ==
  Cardinality({i \in DOMAIN tasks : tasks[i].pc \in {"post", "text", "read", "cb"}}) <= 1

\* C5: every unit with is_end whose loop iteration has completed got its
\* end-of-stream marker, however its exchange ended.
C5_EndMarkerForEveryEndUnit ==
  \A u \in finished : u.is_end => \E i \in Idx : events[i] = EndMarker(u)

\* C6: a unit with empty text and is_end produces exactly one event, the
\* audioEnd / end marker of its requestId, and opens no HTTP exchange.
C6_EmptyEndUnit ==
  \A u \in finished :
    u.text = "" /\ u.is_end
      => LET es == EventsOfUnit(u.id) IN
         /\ Len(es) = 1
         /\ es[1].k = "audioEnd"
         /\ es[1].rid = u.request_id
         /\ es[1].info \in {"REQUEST_END", "END_MARKER"}
         /\ u.id \notin posted

C6_Witness == \E u \in finished : u.text = "" /\ u.is_end

\* A unit discarded by flush() is never dequeued, never synthesized and never
\* produces an event.
C7_FlushedNeverProcessed ==
  \A f \in flushed :
    /\ \A i \in Idx : events[i].x # f.u.id
    /\ f.u.id \notin posted
    /\ \A k \in DOMAIN dequeued : dequeued[k].id # f.u.id
    /\ \A k \in DOMAIN text_input_queue : text_input_queue[k].id # f.u.id
    /\ \A i \in DOMAIN tasks : tasks[i].unit.id # f.u.id

\* flush() empties the queue, discards exactly the units that were in it,
\* emits nothing and leaves every loop task (the in-flight exchange, its
\* buffer and the rest of its response) as it is.
C7_FlushStep ==
  Flush =>
    /\ text_input_queue' = <<>>
    /\ {f.u : f \in flushed' \ flushed} =
         {text_input_queue[k] : k \in DOMAIN text_input_queue}
    /\ events' = events
    /\ tasks' = tasks
    /\ posted' = posted
    /\ finished' = finished

\* C7: flush() discards exactly the units pending in the queue, which are
\* never processed afterwards, leaves the queue empty, emits no event and does
\* not touch the unit already dequeued nor its exchange.
C7_Flush == [](C7_FlushedNeverProcessed) /\ [][C7_FlushStep]_vars

\* A unit was in flight when flush() discarded another one, and its audio and
\* its end marker were emitted after the flush.
C7_Witness ==
  \E f \in flushed, v \in finished :
    /\ v.id \in f.cur
    /\ v.is_end
    /\ \E j \in Idx : j > f.at /\ events[j] = EndMarker(v)
    /\ \E j \in Idx : j > f.at /\ events[j].k = "audioData" /\ events[j].x = v.id

\* C8: after on_cancel_tts(r) issued while the exchange of r is in flight, that
\* exchange delivers no further audio.
C8_CancelAbortsExchange ==
  \A i, j \in Idx :
    /\ i < j
    /\ events[i].k = "audioEnd" /\ events[i].info = "INTERRUPTED" /\ events[i].x # 0
    /\ events[j].x = events[i].x
    => ~IsAudio(events[j])

\* C9: a RUNTIME_ERROR reported by the loop carries the requestId of the unit
\* whose processing raised.
C9_RuntimeErrorCarriesUnitRequestId ==
  \A i \in Idx :
    events[i].k = "error" /\ events[i].info = "RUNTIME_ERROR"
      => \E k \in DOMAIN dequeued :
           dequeued[k].id = events[i].x /\ dequeued[k].request_id = events[i].rid

\* The step that ends the handling of a non-200 response (other than the
\* cancellation of the loop task by close()) emits one VENDOR_ERROR for the
\* unit's requestId and nothing else but the audioEnd of request_tts.
C10_Step ==
  /\ variant = "extension" /\ ext_pc = "text" /\ ext_pc' # "text"
       => /\ Len(events') > Len(events)
          /\ events'[Len(events) + 1] =
               Event("error", ext_t.request_id, "VENDOR_ERROR", n_requests)
          /\ \A j \in (Len(events) + 2)..Len(events') : events'[j].k = "audioEnd"
  /\ \A i \in DOMAIN tasks :
       tasks[i].pc = "text" /\ tasks'[i].pc \notin {"text", "done"}
         => events' = Append(events,
              Event("error", tasks[i].unit.request_id, "VENDOR_ERROR", tasks[i].unit.id))

\* C10: an exchange answered with a non-200 status ends by emitting exactly one
\* VENDOR_ERROR for the unit's requestId, no other error kind and no audio,
\* also when reading the error body fails.
C10_Non200IsVendorError == [][C10_Step]_vars

\* The events of unit number id other than the audioEnd(INTERRUPTED) of
\* on_cancel_tts.
OwnEventsOfUnit(id) ==
  SelectSeq(EventsOfUnit(id), LAMBDA e : ~(e.k = "audioEnd" /\ e.info = "INTERRUPTED"))

\* A unit whose exchange reported NETWORK_ERROR has, once it is finished,
\* the events: its audio so far, then that one error with its requestId, then
\* nothing from the synthesizer; the only event that may follow is the
\* audioEnd / end marker that request_tts / the loop emits when is_end.
C11_NetworkErrorShape ==
  \A u \in finished :
    LET es == OwnEventsOfUnit(u.id)
        errs == {i \in DOMAIN es : es[i].k = "error"}
    IN (\E i \in errs : es[i].info = "NETWORK_ERROR") =>
         /\ Cardinality(errs) = 1
         /\ \A i \in errs :
              /\ es[i].rid = u.request_id
              /\ \A j \in 1..(i - 1) : IsAudio(es[j])
              /\ Len(es) = i + (IF u.is_end THEN 1 ELSE 0)
              /\ u.is_end => /\ es[Len(es)].k = "audioEnd"
                             /\ es[Len(es)].info \in {"REQUEST_END", "END_MARKER"}

\* The step of the aiohttp.ClientError: the synthesizer emits one
\* NETWORK_ERROR for the unit's requestId, no audio and no audioEnd of its own,
\* and returns to its caller, which goes on: request_tts finishes (with the
\* audioEnd of text_input_end) and the loop, once error_callback has returned,
\* is back at its top (with the end marker of is_end).
C11_Step ==
  /\ ExtClientError =>
       /\ events' = RequestTtsEnd(Append(events,
            Event("error", ext_t.request_id, "NETWORK_ERROR", n_requests)),
            ext_t, n_requests)
       /\ ext_pc' = "idle"
  /\ \A i \in TaskIds :
       /\ StreamClientError(i) =>
            /\ events' = Append(events,
                 Event("error", tasks[i].unit.request_id, "NETWORK_ERROR", tasks[i].unit.id))
            /\ tasks'[i].pc = "cb"
            /\ tasks'[i].unit = tasks[i].unit
       /\ CallbackReturn(i) /\ tasks[i].pc = "cb" =>
            /\ tasks'[i].pc = (IF running THEN "wait" ELSE "done")
            /\ events' = IF tasks[i].unit.is_end
                           THEN Append(events, EndMarker(tasks[i].unit))
                           ELSE events

\* C11: an aiohttp.ClientError at any point of an exchange, before or after
\* audio was emitted, ends the chunk loop; the synthesizer emits exactly one
\* NETWORK_ERROR for the unit's requestId and no audioEnd, only that exchange
\* ends, and the dispatcher goes on with the next unit.
C11_NetworkError == [](C11_NetworkErrorShape) /\ [][C11_Step]_vars

\* An exchange emitted audio and then failed with NETWORK_ERROR, and a later
\* unit got its audio afterwards.
C11_Witness ==
  \E i, j, k \in Idx :
    /\ i < j /\ j < k
    /\ events[i].k = "audioData" /\ events[i].x = events[j].x
    /\ events[j].k = "error" /\ events[j].info = "NETWORK_ERROR"
    /\ events[k].k = "audioData" /\ events[k].x > events[j].x

\* close() has returned on a started client and start() was not called since.
Stopped == variant = "client" /\ ~running /\ tasks # <<>>

\* After close() every loop task has terminated and every session is closed.
C12_StoppedState ==
  Stopped => /\ \A i \in DOMAIN tasks : tasks[i].pc = "done"
             /\ \A k \in DOMAIN sessions : sessions[k] = "closed"

\* After close() no event is emitted and no exchange is opened.
C12_StoppedStep == Stopped => events' = events /\ posted' = posted

\* C12: once close() has returned on a started client, the loop task has
\* terminated and the session is closed, whatever the loop was doing, and from
\* then on no audio, end marker or error is emitted and no exchange is opened,
\* also when units remain in the queue or send_text is called.
C12_NothingAfterClose == [](C12_StoppedState) /\ [][C12_StoppedStep]_vars

\* A client on which start() was never called is stopped, has no task and no
\* session, has emitted nothing, and no close() call has raised.
C13_NeverStarted ==
  /\ \A k \in DOMAIN closes : closes[k] = "returned"
  /\ variant = "client" /\ tasks = <<>> =>
       /\ ~running
       /\ process_task = 0
       /\ session = 0
       /\ sessions = <<>>
       /\ events = <<>>

\* close() on a client that is not running (never started, or closed
\* already) returns, emits nothing and changes nothing of the client.
C13_CloseStep ==
  Close /\ ~running =>
    /\ closes' = Append(closes, "returned")
    /\ events' = events
    /\ UNCHANGED <<running, session, sessions, process_task, tasks,
                   cur_request_id, text_input_queue>>

\* C13: close() on a client on which start() was never called returns
\* without raising, emits no event and leaves the client stopped, with no task
\* and no session; so does a second close() after a first one.
C13_CloseWithoutStart == [](C13_NeverStarted) /\ [][C13_CloseStep]_vars

\* close() was called twice on a client that was never started.
C13_Witness == variant = "client" /\ tasks = <<>> /\ Len(closes) = 2

\* The decoder run on the whole response body delivered as one chunk: the
\* chunk loop once, then the remaining buffer.
DecodeWhole(bytes) ==
  LET r == ProcessLines(AppendChunk(<<>>, bytes), <<>>) IN
  IF r.raised
    THEN [out |-> r.out, raised |-> TRUE]
    ELSE LET e == ProcessRemaining(r.buffer) IN
         [out |-> r.out \o e.out, raised |-> e.raised]

IsPrefix(s, t) == Len(s) <= Len(t) /\ SubSeq(t, 1, Len(s)) = s

\* C14: however the response body is cut into chunks, the payloads emitted by
\* the chunk loop (carrying the buffer from chunk to chunk) and the handling
\* of the remaining buffer are, in the same order, those emitted when the
\* whole body arrives as one chunk.
C14_ChunkingInvariance ==
  variant = "decoder" =>
    LET w == DecodeWhole(dec_bytes) IN
    /\ IsPrefix(dec_out, w.out)
    /\ dec_pc \in {"done", "raised"} => dec_out = w.out
    /\ dec_pc = "done" => ~w.raised
    /\ dec_pc = "raised" => w.raised

\* A chunk ended inside a record, after a payload was emitted: the buffer
\* holds the beginning of the record and the rest of it is still to come.
C14_Witness ==
  /\ variant = "decoder"
  /\ dec_pc = "read"
  /\ Len(dec_out) = 1
  /\ dec_buffer = <<"riff50">>
  /\ dec_rest # <<>> /\ Head(dec_rest) = "}"

\* What the claim says of the payload decoded from head h: 44 bytes less when
\* it is longer than 44 bytes and starts with RIFF, unmodified otherwise.
C15_Normalized(h) ==
  LET a == b64decode(h) IN
  IF a.riff /\ a.len >= 45 THEN [riff |-> FALSE, len |-> a.len - 44] ELSE a

\* The payloads of ps that are not empty, in order.
NonEmpty(ps) == SelectSeq(ps, LAMBDA a : a.len > 0)

\* C15: a decoded payload longer than 44 bytes that starts with RIFF loses
\* exactly its first 44 bytes, once, and is emitted with len-44 >= 1 bytes; a
\* payload of at most 44 bytes or with another signature is emitted
\* unmodified; a response of two lines yields the two normalized payloads in
\* the order of the lines.
C15_HeaderNormalization ==
  variant = "decoder" /\ dec_pc = "done" =>
    /\ \A h \in AudioHeads :
         dec_bytes = Line(h) => dec_out = NonEmpty(<<C15_Normalized(h)>>)
    /\ \A h1, h2 \in AudioHeads :
         dec_bytes = Line(h1) \o Line(h2)
           => dec_out = NonEmpty(<<C15_Normalized(h1), C15_Normalized(h2)>>)
    /\ \A i \in DOMAIN dec_out : dec_out[i].len >= 1

\* A RIFF line of 44+6 bytes followed by a non-RIFF line of 3 bytes was
\* decoded to the end and gave two payloads.
C15_Witness ==
  /\ variant = "decoder"
  /\ dec_pc = "done"
  /\ dec_bytes = Line("riff50") \o Line("pcm3")
  /\ dec_out = <<[riff |-> FALSE, len |-> 6], [riff |-> FALSE, len |-> 3]>>

\* The payload of one line as the claim has it: the normalized audio of a
\* well-formed record, nothing for any other line.
C16_PayloadOf(line) ==
  LET text == JsonText(Strip(line)) IN
  IF Len(text) = 2 /\ text[1] \in AudioHeads /\ text[2] = "}"
    THEN NonEmpty(<<StripWavHeader(b64decode(text[1]))>>)
    ELSE <<>>

\* The payloads of the complete lines of buf, malformed lines skipped.
RECURSIVE C16_PayloadsOfLines(_)
C16_PayloadsOfLines(buf) ==
  LET i == FindNL(buf, 1) IN
  IF i = 0 THEN <<>>
  ELSE C16_PayloadOf(SubSeq(buf, 1, i - 1))
         \o C16_PayloadsOfLines(SubSeq(buf, i + 1, Len(buf)))

\* C16: a malformed line of a success response (not JSON, not UTF-8, JSON
\* that is not an object with result.audioContent, audioContent that is not
\* base64) is skipped: no exception leaves the decoder, and every well-formed
\* line before and after it still gives its payload.
C16_MalformedLineSkipped ==
  variant = "decoder" =>
    /\ dec_pc # "raised"
    /\ dec_pc = "read" /\ dec_rest = <<>> =>
         dec_out = C16_PayloadsOfLines(dec_bytes)

\* C17: the events of the units reach the sink in the order the units were
\* given to send_text: every event of a unit comes before every event of a
\* unit submitted after it (units are numbered in submission order).
C17_EventsInSubmissionOrder ==
  variant = "client" =>
    \A i, j \in Idx : i < j => events[i].x <= events[j].x

\* The end of the response body: the bytes left after the last newline give
\* one last payload when they are a well-formed record, and are discarded
\* otherwise, without an exception.
C18_EofStep ==
  DecEof =>
    LET text == JsonText(dec_buffer) IN
    /\ dec_pc' = "done"
    /\ dec_out' =
         IF Len(text) = 2 /\ text[1] \in AudioHeads /\ text[2] = "}"
           THEN dec_out \o NonEmpty(<<C15_Normalized(text[1])>>)
           ELSE dec_out

\* C18: at the end of a success response the bytes after the last newline
\* are handled as one final record: well-formed, they give the last payload of
\* the exchange; empty, whitespace only or unparseable, they are discarded
\* with no payload and no error.
C18_TrailingBuffer == [][C18_EofStep]_vars

\* A finished unit with empty text and is_end false has emitted nothing and
\* has opened no exchange.
C19_NoOpUnitSilent ==
  \A u \in finished :
    u.text = "" /\ ~u.is_end => EventsOfUnit(u.id) = <<>> /\ u.id \notin posted

\* The dequeue of such a unit removes it from the queue and changes nothing
\* else: no event, no exchange, cur_request_id as it was, the loop back at its
\* top; a timeout of the queue wait changes nothing and the loop waits again;
\* request_tts returns at once on such an input.
C19_Step ==
  /\ \A i \in TaskIds :
       /\ LoopDequeue(i) /\ Head(text_input_queue).text = ""
                         /\ ~Head(text_input_queue).is_end =>
            /\ text_input_queue' = Tail(text_input_queue)
            /\ events' = events
            /\ posted' = posted
            /\ cur_request_id' = cur_request_id
            /\ tasks'[i] = LoopTask(IF running THEN "wait" ELSE "done")
       /\ LoopQueueTimeout(i) =>
            /\ text_input_queue' = text_input_queue
            /\ events' = events
            /\ posted' = posted
            /\ cur_request_id' = cur_request_id
            /\ tasks'[i] = LoopTask(IF running THEN "wait" ELSE "done")
  /\ \A t \in TTSTextInputs :
       RequestTts(t) /\ t.text = "" /\ ~t.text_input_end =>
         /\ events' = events
         /\ posted' = posted
         /\ ext_pc' = "idle"

\* C19: a unit with empty text and isEnd false is a no-op: no exchange, no
\* event, cur_request_id and the rest of the queue unchanged, and the
\* dispatcher goes on; a queue-wait timeout emits nothing and the loop waits
\* again.
C19_NoOpUnit == [](C19_NoOpUnitSilent) /\ [][C19_Step]_vars

\* A no-op unit was dropped and a unit submitted after it was processed.
C19_Witness ==
  \E u, v \in finished :
    /\ u.text = "" /\ ~u.is_end
    /\ v.id > u.id
    /\ EventsOfUnit(v.id) # <<>>

\* The numbers of the units of a sequence of units.
Ids(us) == {us[k].id : k \in DOMAIN us}

FlushedIds == {f.u.id : f \in flushed}

\* Every unit given to send_text is in exactly one place: still in the queue,
\* taken by the dispatcher, or discarded by flush; the dispatcher has taken
\* no unit twice, has taken the units in the order of their submission, and
\* each unit it took is in the hands of at most one loop task, and of none
\* once its processing is finished.
C20_ConsumedOnce ==
  variant = "client" =>
    /\ Ids(text_input_queue) \cup Ids(dequeued) \cup FlushedIds = 1..n_sends
    /\ Ids(text_input_queue) \cap Ids(dequeued) = {}
    /\ Ids(text_input_queue) \cap FlushedIds = {}
    /\ Ids(dequeued) \cap FlushedIds = {}
    /\ \A j, k \in DOMAIN dequeued : j < k => dequeued[j].id < dequeued[k].id
    /\ \A j, k \in DOMAIN text_input_queue :
         j < k => text_input_queue[j].id < text_input_queue[k].id
    /\ \A k \in DOMAIN dequeued :
         /\ Cardinality({i \in DOMAIN tasks : tasks[i].unit.id = dequeued[k].id}) <= 1
         /\ dequeued[k] \in finished
              => \A i \in DOMAIN tasks : tasks[i].unit.id # dequeued[k].id
    /\ \A u \in finished : u.id \in Ids(dequeued)

\* While the client is running, a unit in the queue is eventually taken by the
\* dispatcher, unless flush discards it or close() stops the client.
C20_EventuallyDequeued ==
  \A id \in 1..MaxSends :
    (running /\ id \in Ids(text_input_queue))
      ~> (id \in Ids(dequeued) \/ id \in FlushedIds \/ ~running)

\* C20: every unit given to send_text leaves the queue at most once, taken by
\* the dispatcher (which processes it once) or discarded by flush, never both;
\* the dispatcher takes the units in FIFO order; while the client is running
\* and the unit is not flushed, it is eventually taken.
C20_QueueFifoOnce == [](C20_ConsumedOnce) /\ C20_EventuallyDequeued

\* Two units were submitted, the first was taken by the dispatcher and
\* processed, the second was discarded by flush.
C20_Witness ==
  /\ variant = "client"
  /\ \E u \in finished : u.id = 1 /\ u.text # ""
  /\ 2 \in FlushedIds

\* C21: whatever start() and close() calls were made on a client, at most
\* one loop task is alive and at most one session is open, and once close()
\* was called last, no loop task is alive and no session is open.
C21_OneLoopOneSession ==
  variant = "client" =>
    /\ Cardinality({i \in DOMAIN tasks : tasks[i].pc # "done"}) <= 1
    /\ Cardinality({k \in DOMAIN sessions : sessions[k] = "open"}) <= 1
    /\ ~running =>
         /\ {i \in DOMAIN tasks : tasks[i].pc # "done"} = {}
         /\ {k \in DOMAIN sessions : sessions[k] = "open"} = {}

\* C22: for every requestId at most one audioEnd / end-of-stream marker is
\* emitted, whatever the operations: a cancel of a requestId whose is_end unit
\* is processed too, a cancel of a requestId that is not in flight, two
\* units with is_end of the same requestId.
C22_AtMostOneAudioEnd ==
  \A rid \in RequestIds :
    Cardinality({i \in Idx : events[i].k = "audioEnd" /\ events[i].rid = rid}) <= 1

\* A terminal event (end marker or error) of request rid, emitted for unit id.
TerminalEvent(id, rid) ==
  \E i \in Idx : /\ events[i].k \in {"audioEnd", "error"}
                 /\ events[i].rid = rid
                 /\ events[i].x = id

\* C23: while the client stays running, every unit with is_end that send_text
\* put in the queue leads to a terminal event (end marker or error) of its
\* request id, also when flush() is called before the unit is dequeued.
C23_EventuallyClosed ==
  \A id \in 1..MaxSends, rid \in RequestIds :
    (running /\ \E k \in DOMAIN text_input_queue :
                  /\ text_input_queue[k].id = id
                  /\ text_input_queue[k].is_end
                  /\ text_input_queue[k].request_id = rid)
      ~> (~running \/ TerminalEvent(id, rid))
====
